---- MODULE Spec2Model ----
(***************************************************************************)
(* circuit-watcher (src/src/main.rs): the game-session automation engine,  *)
(* the connection supervisor and the presentation layer's writes to the    *)
(* shared automation state.                                                *)
(*                                                                         *)
(* Option<T> is a sequence of length <= 1: <<>> is None, <<x>> is Some(x). *)
(* A (u32, String) pair is the tuple <<id, name>>.                         *)
(* The League client is the environment: every response it gives is an     *)
(* input of the step that issues the request.                              *)
(***************************************************************************)
EXTENDS Integers, Sequences, FiniteSets, TLC

None == <<>>
Some(x) == <<x>>
IsSome(o) == Len(o) > 0
IsNone(o) == Len(o) = 0
Unwrap(o) == o[1]

(***************************************************************************)
(* Bounds of the model.                                                    *)
(***************************************************************************)
\* the per-session and per-ready-check request counters stop counting here
MaxCount == 2
\* operator inputs while the engine runs
MaxInputs == 1
\* operator inputs to the pick/ban panel while the engine runs
MaxPanelInputs == 2
\* operator inputs to the presentation layer on its own
MaxEdits == 6

(***************************************************************************)
(* Static catalogs (champions.json, summoner_spells.json) and the values   *)
(* the client can report.                                                  *)
(***************************************************************************)
Ahri == <<103, "Ahri">>
Zed == <<238, "Zed">>
\* champion_picks.push((0, "".to_string())): the explicit skip placeholder
Skip == <<0, "">>
Champions == {Ahri, Zed}

FlashKey == 4
GhostKey == 6
SpellNames == {"Flash", "Ghost", "Heal", "Smite", "Ignite"}
\* summoner_spells.iter().find(|spell| spell.name == name).unwrap().key
SpellKey(name) ==
    CASE name = "Flash" -> FlashKey
      [] name = "Ghost" -> GhostKey
      [] name = "Heal" -> 7
      [] name = "Smite" -> 11
      [] name = "Ignite" -> 14

\* gameflow["phase"]: the strings the match of the engine names, and one it
\* does not name
PhaseNames == {"Matchmaking", "Lobby", "ReadyCheck", "ChampSelect", "InProgress",
               "WaitingForStats", "PreEndOfGame", "EndOfGame", "GameStart"}
\* gameflow["phase"].as_str(): None when the response carries no phase string
PhaseValues == {None} \cup {Some(p) : p \in PhaseNames}

\* MyTeamData.assignedPosition
Roles == {"jungle", "top"}
\* extracted_team_data.2.contains("jungle"), on the values of Roles
ContainsJungle(role) == role = "jungle"
\* (spell1Id, spell2Id) of the local roster entry
RosterSpells == {<<4, 7>>, <<6, 7>>, <<7, 4>>, <<7, 6>>, <<7, 14>>}

\* a sentinel that counts as in progress
SentinelInProgress == <<0, TRUE, "", FALSE>>

\* unwrap_or((0, false, "".to_string(), false)): (id, isInProgress, type, completed)
Sentinel == <<0, FALSE, "", FALSE>>
\* the kinds of the local player's actions, in queue order, by kind of game
DraftKinds(d) ==
    CASE d = "draft" -> <<"ban", "pick">>
      [] d = "blind" -> <<"pick">>
      [] d = "none" -> <<>>
\* action ids are scoped to one champion-select session: the id of the first
\* action of the local player in the session a response belongs to, less one
ActionIdBases == {0, 10}
\* the local player's actions as one response reports them: action k has id
\* base + k
ActionLists(d) ==
    LET kinds == DraftKinds(d)
    IN  {[k \in 1..Len(kinds) |-> <<base + k, f[k][1], kinds[k], f[k][2]>>] :
            f \in [1..Len(kinds) -> BOOLEAN \X BOOLEAN], base \in ActionIdBases}

VARIABLES
    \* SharedAutomationState (struct GUI)
    champion_picks, ban_picks, pick_ban_selection, auto_accept, spell_selection,
    selected_image1, selected_image2, gameflow_status, assigned_role,
    connection_status,
    \* GUI.text: the inline message of the pick and ban fields
    text,
    \* the League client: the port it listens on (0: not running), the kind of game
    client, draft,
    \* the operator: the inputs still to come
    budget,
    \* the engine task: position, lc_info.port, locked_champ, the locals of the
    \* current cycle, and the call whose unwrap ended the task
    pc, lc_info, locked_champ, cyc, halt,
    \* history: the requests of the current cycle, the commit PATCHes of the
    \* current run of ChampSelect cycles, the accept POSTs of the current run of
    \* ReadyCheck cycles, the phases observed so far
    reqs, sessBan, sessPick, rcAccept, scen,
    \* history: a Clear that removed a ban ran between this cycle's read of the
    \* pick queue and its read of the ban
    cleared,
    \* history: the outcome of the supervisor's latest discovery call (None
    \* before the first, a port, 0 for a failure), and the port of the latest
    \* successful discovery call of either task (0 before the first)
    probe, discovered,
    \* the self-update: GUI.update_status, GUI.update, the supervisor task (the
    \* call whose unwrap ended it, "" while it runs), and whether the latest
    \* release on the server is newer than this program
    update_status, update, supervisor, release,
    \* the mutexes of struct GUI: the task that holds each ("" when free), the
    \* mutex each task is blocked on in lock() ("" when none), and the number
    \* of lock() calls the GUI has made in the current frame
    owner, want, frame

shared == <<champion_picks, ban_picks, pick_ban_selection, auto_accept, spell_selection,
            selected_image1, selected_image2, gameflow_status, assigned_role,
            connection_status, text>>
prefs == <<champion_picks, ban_picks, pick_ban_selection, auto_accept, spell_selection,
           text>>
spells == <<selected_image1, selected_image2>>
remote == <<client, draft, budget>>
engine == <<pc, lc_info, locked_champ, cyc, halt>>
history == <<reqs, sessBan, sessPick, rcAccept, scen, cleared>>
probes == <<probe, discovered>>
updater == <<update_status, update, supervisor, release>>
mutexes == <<owner, want, frame>>
vars == <<shared, remote, probes, updater, mutexes, engine, history>>

\* the locals of a cycle before the cycle has set them
NoCycle ==
    [champion_picks |-> <<>>, ban_picks |-> None, pick_ban_selection |-> FALSE,
     auto_accept |-> FALSE, spell_selection |-> FALSE, phase |-> None,
     extracted_team_data |-> <<0, 0, "">>, spell1_clone |-> None,
     spell2_clone |-> None, planning |-> FALSE, ban |-> Sentinel, pick |-> Sentinel,
     slept |-> 0]

Bump(n) == IF n < MaxCount THEN n + 1 ELSE n

\* the phases observed so far, against the sequence None, Matchmaking, ChampSelect
ScenNext(s, ph) ==
    CASE s = "start" /\ ph = None -> "none"
      [] s = "none" /\ ph = None -> "none"
      [] s = "none" /\ ph = Some("Matchmaking") -> "mm"
      [] s = "mm" /\ ph = Some("Matchmaking") -> "mm"
      [] s = "mm" /\ ph = Some("ChampSelect") -> "cs"
      [] s = "cs" /\ ph = Some("ChampSelect") -> "cs"
      [] OTHER -> "off"

(***************************************************************************)
(* GUI::new and the locals of main before the tasks start.                 *)
(***************************************************************************)
InitShared ==
    /\ champion_picks = <<>>
    /\ ban_picks = None
    /\ pick_ban_selection = FALSE
    /\ auto_accept = FALSE
    /\ spell_selection = FALSE
    /\ selected_image1 = None
    /\ selected_image2 = None
    /\ gameflow_status = ""
    /\ assigned_role = None
    /\ connection_status = None
    /\ text = ""

InitEngine ==
    /\ pc = "boot"
    /\ lc_info = 0
    /\ locked_champ = FALSE
    /\ cyc = NoCycle
    /\ halt = ""

InitHistory ==
    /\ reqs = <<>>
    /\ sessBan = 0
    /\ sessPick = 0
    /\ rcAccept = 0
    /\ scen = "start"
    /\ cleared = FALSE
    /\ probe = None
    /\ discovered = 0

\* lines 164-166: nothing checked, nothing asked for; the supervisor runs; the
\* server holds the release this program was built from
InitUpdater ==
    /\ update_status = ""
    /\ update = FALSE
    /\ supervisor = ""
    /\ release = "current"

(***************************************************************************)
(* The mutexes of struct GUI and the lock() calls of the three tasks.      *)
(***************************************************************************)
\* lines 25-41: the fields of struct GUI behind a Mutex
Mutexes ==
    {"champion_picks", "ban_picks", "gameflow_status", "selected_image1", "selected_image2",
     "assigned_role", "connection_status", "update_status", "current_version", "asset_name"}

\* the GUI thread (eframe::run_native) and the two tokio tasks
Tasks == {"gui", "engine", "supervisor"}

\* GUI::new: nothing is locked
InitMutexes ==
    /\ owner = [m \in Mutexes |-> ""]
    /\ want = [t \in Tasks |-> ""]
    /\ frame = 0

\* lines 201-208, 234, 713: the lock() calls of one frame, in program order
FrameLocks ==
    <<"champion_picks", "ban_picks", "connection_status", "gameflow_status",
      "selected_image1", "selected_image2", "update_status", "current_version",
      "asset_name", "assigned_role">>

\* lines 201-206: the first six guards are bound by let and live to the end of
\* update(); the later ones are temporaries of their statement
FrameGuards == 6

\* lines 207-208 run in every frame; 234 runs behind the Update button and 713
\* while a role is shown
FrameAlways == 8

\* lines 885-1363: the mutexes the engine task locks (761 in update_checker)
EngineLocks ==
    {"connection_status", "update_status", "current_version", "champion_picks", "ban_picks",
     "assigned_role", "gameflow_status", "selected_image1", "selected_image2"}

\* lines 863, 870, 877: the mutexes the supervisor task locks
SupervisorLocks == {"asset_name", "connection_status"}

TaskLocks(t) == IF t = "engine" THEN EngineLocks ELSE SupervisorLocks

Held(t) == {m \in Mutexes : owner[m] = t}

\* a task that holds k and calls lock() on m before it drops k
NestedSpells(t, k, m) == t = "engine" /\ k = "selected_image2" /\ m = "selected_image1"

\* lines 822-1367: every guard of the two tasks is a temporary of one statement
\* (1039-1040, 1050-1071) or the only guard of its block (870, 877); in 888 the
\* call of update_checker, which locks update_status, returns before
\* current_version is locked
Nested(t, k, m) == FALSE

\* the GUI calls the next lock() of its frame
GuiLock ==
    /\ frame < Len(FrameLocks)
    /\ want["gui"] = ""
    /\ \A k \in (FrameGuards + 1)..Len(FrameLocks) : owner[FrameLocks[k]] # "gui"
    /\ frame' = frame + 1
    /\ want' = [want EXCEPT !["gui"] = FrameLocks[frame + 1]]
    /\ UNCHANGED <<owner, shared, remote, probes, updater, engine, history>>

\* the frame does not reach line 234 or line 713
GuiPass ==
    /\ frame >= FrameAlways /\ frame < Len(FrameLocks)
    /\ want["gui"] = ""
    /\ frame' = frame + 1
    /\ UNCHANGED <<owner, want, shared, remote, probes, updater, engine, history>>

\* Mutex::lock returns to a blocked task once the mutex is free
Acquire(t) ==
    /\ want[t] # ""
    /\ owner[want[t]] = ""
    /\ owner' = [owner EXCEPT ![want[t]] = t]
    /\ want' = [want EXCEPT ![t] = ""]
    /\ UNCHANGED <<frame, shared, remote, probes, updater, engine, history>>

\* the end of a statement of the GUI drops its temporary guard
GuiDrop ==
    /\ want["gui"] = ""
    /\ \E k \in (FrameGuards + 1)..Len(FrameLocks) :
          /\ owner[FrameLocks[k]] = "gui"
          /\ owner' = [owner EXCEPT ![FrameLocks[k]] = ""]
    /\ UNCHANGED <<want, frame, shared, remote, probes, updater, engine, history>>

\* line 731: update() returns and drops the guards of lines 201-206
GuiFrameReturn ==
    /\ frame = Len(FrameLocks)
    /\ want["gui"] = ""
    /\ \A k \in (FrameGuards + 1)..Len(FrameLocks) : owner[FrameLocks[k]] # "gui"
    /\ owner' = [m \in Mutexes |-> IF owner[m] = "gui" THEN "" ELSE owner[m]]
    /\ frame' = 0
    /\ UNCHANGED <<want, shared, remote, probes, updater, engine, history>>

\* a task calls lock(): with nothing held, or nested in a guard it holds
TaskLock(t) ==
    /\ want[t] = ""
    /\ \E m \in TaskLocks(t) :
          /\ Held(t) = {} \/ \E k \in Held(t) : Nested(t, k, m)
          /\ want' = [want EXCEPT ![t] = m]
    /\ UNCHANGED <<owner, frame, shared, remote, probes, updater, engine, history>>

\* the end of the statement or block drops what the task holds
TaskDrop(t) ==
    /\ want[t] = ""
    /\ Held(t) # {}
    /\ owner' = [m \in Mutexes |-> IF owner[m] = t THEN "" ELSE owner[m]]
    /\ UNCHANGED <<want, frame, shared, remote, probes, updater, engine, history>>

GuiLocks == GuiLock \/ GuiPass \/ Acquire("gui") \/ GuiDrop \/ GuiFrameReturn
EngineLocking == TaskLock("engine") \/ Acquire("engine") \/ TaskDrop("engine")
SupervisorLocking == TaskLock("supervisor") \/ Acquire("supervisor") \/ TaskDrop("supervisor")

(***************************************************************************)
(* ConnectionSupervisor: one iteration's discovery call and the status it  *)
(* publishes.                                                              *)
(***************************************************************************)
\* LeagueClientConnector::parse_raw_info(): Ok(port) while the client runs
Discovery == IF client # 0 THEN Some(client) ELSE None

\* lines 868-880: the discovery call of an iteration and the status it
\* publishes
Discover ==
    /\ connection_status' =
          IF IsSome(Discovery) THEN Some(<<"Connected", Unwrap(Discovery)>>)
          ELSE Some(<<"NotFound", 0>>)
    /\ probe' = Some(IF IsSome(Discovery) THEN Unwrap(Discovery) ELSE 0)
    /\ discovered' = IF IsSome(Discovery) THEN Unwrap(Discovery) ELSE discovered

\* SupervisorDiscover whose Err arm leaves the published status as it is
SupervisorDiscoverKeeps ==
    /\ supervisor = "" /\ ~update
    /\ connection_status' =
          IF IsSome(Discovery) THEN Some(<<"Connected", Unwrap(Discovery)>>)
          ELSE connection_status
    /\ probe' = Some(IF IsSome(Discovery) THEN Unwrap(Discovery) ELSE 0)
    /\ discovered' = IF IsSome(Discovery) THEN Unwrap(Discovery) ELSE discovered
    /\ UNCHANGED <<prefs, spells, gameflow_status, assigned_role, remote, updater, mutexes, engine,
                   history>>

\* lines 823-881 with update not set: one iteration of the supervisor loop
SupervisorDiscover ==
    /\ supervisor = "" /\ ~update
    /\ Discover
    /\ UNCHANGED <<prefs, spells, gameflow_status, assigned_role, remote, updater, mutexes, engine,
                   history>>

\* lines 838-861: how the update of one iteration goes: an unwrap fails (the
\* request for the release, its body, the request for an asset, the file, the
\* asset's bytes, the write); the server answers without success; the release
\* has no assets; every asset is written
UpdateOutcomes ==
    {"release", "body", "asset", "file", "bytes", "write", "refused", "empty", "downloaded"}
UpdateSurvived == {"refused", "empty", "downloaded"}

\* lines 823-881 with update set: one iteration of the supervisor loop
SupervisorUpdate ==
    /\ supervisor = "" /\ update
    /\ \E outcome \in UpdateOutcomes :
          IF outcome \in UpdateSurvived
          THEN /\ update' = (outcome # "downloaded")
               /\ Discover
               /\ UNCHANGED supervisor
          ELSE /\ supervisor' = outcome
               /\ UNCHANGED <<update, connection_status, probe, discovered>>
    /\ UNCHANGED <<prefs, spells, gameflow_status, assigned_role, remote, update_status,
                   release, mutexes, engine, history>>

\* .contains("LeagueClient not found, may be closed.")
NotFound(status) == Unwrap(status)[1] = "NotFound"

(***************************************************************************)
(* The engine task.                                                        *)
(***************************************************************************)
\* a request the engine sends with rest_client to https://127.0.0.1:{lc_info.port}
Sent(r) == reqs' = Append(reqs, r)
\* .send().await.unwrap() (and .json().await.unwrap()): the outcomes of one
\* request; it cannot succeed unless the client listens on the port used
Outcomes == IF client # 0 /\ lc_info = client THEN {TRUE, FALSE} ELSE {FALSE}
\* a panic of an unwrap ends the task where it stands
Panic(call) ==
    /\ pc' = "panicked"
    /\ halt' = call
    /\ UNCHANGED <<lc_info, locked_champ, cyc>>

\* lines 759-768: what update_checker stores in update_status
UpdateChecked ==
    IF release = "newer" THEN "Program is outdated the latest version is newer"
    ELSE "Program is up to date."

\* lines 885-888: the status captured once, and update_checker(..).await.unwrap()
EngineBoot ==
    /\ pc = "boot"
    /\ \E checked \in BOOLEAN :
          IF checked
          THEN /\ pc' = IF IsNone(connection_status) THEN "wait_some" ELSE "wait_found"
               /\ update_status' = UpdateChecked
               /\ UNCHANGED <<lc_info, locked_champ, cyc, halt>>
          ELSE Panic("update_checker") /\ UNCHANGED update_status
    /\ UNCHANGED <<shared, remote, probes, update, supervisor, release, mutexes, history>>

\* lines 891-896: leaves the loop once a status has been published
EngineWaitSome ==
    /\ pc = "wait_some"
    /\ IsSome(connection_status)
    /\ pc' = "wait_found"
    /\ UNCHANGED <<lc_info, locked_champ, cyc, halt, shared, remote, probes, updater, mutexes, history>>

\* EngineWaitFound that leaves the loop whatever the status says
EngineWaitFoundAny ==
    /\ pc = "wait_found"
    /\ pc' = "connect"
    /\ UNCHANGED <<lc_info, locked_champ, cyc, halt, shared, remote, probes, updater, mutexes, history>>

\* lines 897-906: leaves the loop once the status is not "not found"
EngineWaitFound ==
    /\ pc = "wait_found"
    /\ ~NotFound(connection_status)
    /\ pc' = "connect"
    /\ UNCHANGED <<lc_info, locked_champ, cyc, halt, shared, remote, probes, updater, mutexes, history>>

\* lines 907-928: parse_raw_info().unwrap() and the first rest_client
EngineConnect ==
    /\ pc = "connect"
    /\ IF IsSome(Discovery)
       THEN /\ lc_info' = Unwrap(Discovery)
            /\ discovered' = Unwrap(Discovery)
            /\ pc' = "top"
            /\ UNCHANGED <<locked_champ, cyc, halt>>
       ELSE Panic("discovery") /\ UNCHANGED discovered
    /\ UNCHANGED <<shared, remote, probe, updater, mutexes, history>>

\* lines 929-960: the top of the loop; on "not found" the engine runs discovery
\* itself and rebuilds lc_info and rest_client, or starts the loop again
EngineCheckConnection ==
    /\ pc = "top"
    /\ cyc' = NoCycle
    /\ reqs' = <<>>
    /\ cleared' = FALSE
    /\ IF NotFound(connection_status)
       THEN IF IsSome(Discovery)
            THEN /\ lc_info' = Unwrap(Discovery) /\ pc' = "read_picks"
                 /\ discovered' = Unwrap(Discovery)
            ELSE lc_info' = lc_info /\ pc' = "top" /\ UNCHANGED discovered
       ELSE lc_info' = lc_info /\ pc' = "read_picks" /\ UNCHANGED discovered
    /\ UNCHANGED <<locked_champ, halt, shared, remote, probe, updater, mutexes, sessBan, sessPick,
                   rcAccept, scen>>

\* line 962
EngineReadPicks ==
    /\ pc = "read_picks"
    /\ cyc' = [cyc EXCEPT !.champion_picks = champion_picks]
    /\ pc' = "read_ban"
    /\ UNCHANGED <<lc_info, locked_champ, halt, shared, remote, probes, updater, mutexes, history>>

\* EngineReadBan that takes the ban out of the shared state (take() for clone())
EngineReadBanTakes ==
    /\ pc = "read_ban"
    /\ cyc' = [cyc EXCEPT !.ban_picks = ban_picks]
    /\ ban_picks' = None
    /\ pc' = "read_toggles"
    /\ UNCHANGED <<lc_info, locked_champ, halt, champion_picks, pick_ban_selection,
                   auto_accept, spell_selection, spells, gameflow_status, assigned_role,
                   connection_status, text, remote, probes, updater, mutexes, history>>

\* line 963
EngineReadBan ==
    /\ pc = "read_ban"
    /\ cyc' = [cyc EXCEPT !.ban_picks = ban_picks]
    /\ pc' = "read_toggles"
    /\ UNCHANGED <<lc_info, locked_champ, halt, shared, remote, probes, updater, mutexes, history>>

\* lines 965-970
EngineReadToggles ==
    /\ pc = "read_toggles"
    /\ cyc' = [cyc EXCEPT !.pick_ban_selection = pick_ban_selection,
                          !.auto_accept = auto_accept,
                          !.spell_selection = spell_selection]
    /\ pc' = "gameflow"
    /\ UNCHANGED <<lc_info, locked_champ, halt, shared, remote, probes, updater, mutexes, history>>

\* lines 973-984: GET /lol-gameflow/v1/session
EngineFetchGameflow ==
    /\ pc = "gameflow"
    /\ Sent([op |-> "gameflow", port |-> lc_info])
    /\ \E ok \in Outcomes :
          IF ok
          THEN \E ph \in PhaseValues :
                  /\ cyc' = [cyc EXCEPT !.phase = ph]
                  /\ pc' = "phase"
                  /\ sessBan' = IF ph = Some("ChampSelect") THEN sessBan ELSE 0
                  /\ sessPick' = IF ph = Some("ChampSelect") THEN sessPick ELSE 0
                  /\ rcAccept' = IF ph = Some("ReadyCheck") THEN rcAccept ELSE 0
                  /\ scen' = ScenNext(scen, ph)
                  /\ UNCHANGED <<lc_info, locked_champ, halt>>
          ELSE Panic("gameflow") /\ UNCHANGED <<sessBan, sessPick, rcAccept, scen>>
    /\ UNCHANGED <<shared, remote, probes, updater, mutexes, cleared>>

\* PhaseTable with the sleeps of InProgress and PreEndOfGame exchanged
PhaseTableSleepsExchanged(ph) ==
    CASE ph = Some("Matchmaking") -> <<"Looking for a match", TRUE, TRUE, 0>>
      [] ph = Some("Lobby") -> <<"In Lobby", TRUE, FALSE, 0>>
      [] ph = Some("InProgress") -> <<"Game in progress...", FALSE, FALSE, 10>>
      [] ph = Some("WaitingForStats") -> <<"Waiting for Stats", FALSE, FALSE, 2>>
      [] ph = Some("PreEndOfGame") -> <<"Game in progress...", FALSE, FALSE, 20>>
      [] ph = Some("EndOfGame") -> <<"Game Ending...", TRUE, FALSE, 5>>
      [] ph = Some("GameStart") -> <<"Unimplemented Phase: GameStart", TRUE, FALSE, 10>>
      [] ph = None -> <<"Idling...", FALSE, FALSE, 0>>

\* PhaseTable whose InProgress arm clears the role
PhaseTableClearsInProgress(ph) ==
    CASE ph = Some("Matchmaking") -> <<"Looking for a match", TRUE, TRUE, 0>>
      [] ph = Some("Lobby") -> <<"In Lobby", TRUE, FALSE, 0>>
      [] ph = Some("InProgress") -> <<"Game in progress...", TRUE, FALSE, 20>>
      [] ph = Some("WaitingForStats") -> <<"Waiting for Stats", FALSE, FALSE, 2>>
      [] ph = Some("PreEndOfGame") -> <<"Game in progress...", FALSE, FALSE, 10>>
      [] ph = Some("EndOfGame") -> <<"Game Ending...", TRUE, FALSE, 5>>
      [] ph = Some("GameStart") -> <<"Unimplemented Phase: GameStart", TRUE, FALSE, 10>>
      [] ph = None -> <<"Idling...", FALSE, FALSE, 0>>

\* the arms of the match that only publish: (status, clears the role, resets
\* locked_champ, seconds of tokio::time::sleep)
PhaseTable(ph) ==
    CASE ph = Some("Matchmaking") -> <<"Looking for a match", TRUE, TRUE, 0>>
      [] ph = Some("Lobby") -> <<"In Lobby", TRUE, FALSE, 0>>
      [] ph = Some("InProgress") -> <<"Game in progress...", FALSE, FALSE, 20>>
      [] ph = Some("WaitingForStats") -> <<"Waiting for Stats", FALSE, FALSE, 2>>
      [] ph = Some("PreEndOfGame") -> <<"Game in progress...", FALSE, FALSE, 10>>
      [] ph = Some("EndOfGame") -> <<"Game Ending...", TRUE, FALSE, 5>>
      [] ph = Some("GameStart") -> <<"Unimplemented Phase: GameStart", TRUE, FALSE, 10>>
      [] ph = None -> <<"Idling...", FALSE, FALSE, 0>>

\* lines 987-995 and 1339-1365
EnginePhase ==
    /\ pc = "phase"
    /\ cyc.phase \notin {Some("ReadyCheck"), Some("ChampSelect")}
    /\ LET row == PhaseTable(cyc.phase)
       IN  /\ gameflow_status' = row[1]
           /\ assigned_role' = IF row[2] THEN None ELSE assigned_role
           /\ locked_champ' = IF row[3] THEN FALSE ELSE locked_champ
           /\ cyc' = [cyc EXCEPT !.slept = row[4]]
    /\ pc' = "top"
    /\ UNCHANGED <<lc_info, halt, prefs, spells, connection_status, remote, probes, updater, mutexes, history>>

\* the auto-accept toggle as the shared state holds it now
AutoAcceptLive == auto_accept

\* lines 967, 997: auto_accept of the loop body is the value loaded at the top
\* of the cycle
AutoAccept == cyc.auto_accept

\* lines 996-1007
EngineReadyCheck ==
    /\ pc = "phase"
    /\ cyc.phase = Some("ReadyCheck")
    /\ IF AutoAccept
       THEN /\ gameflow_status' = "Accepting match"
            /\ Sent([op |-> "accept", port |-> lc_info])
            /\ rcAccept' = Bump(rcAccept)
            /\ \E ok \in Outcomes :
                  IF ok
                  THEN pc' = "match_found" /\ UNCHANGED <<lc_info, locked_champ, cyc, halt>>
                  ELSE Panic("accept")
       ELSE /\ pc' = "match_found"
            /\ UNCHANGED <<gameflow_status, reqs, rcAccept, lc_info, locked_champ, cyc, halt>>
    /\ UNCHANGED <<prefs, spells, assigned_role, connection_status, remote, probes, updater, mutexes,
                   sessBan, sessPick, scen, cleared>>

\* line 1008
EngineMatchFound ==
    /\ pc = "match_found"
    /\ gameflow_status' = "Match Found"
    /\ pc' = "top"
    /\ UNCHANGED <<lc_info, locked_champ, cyc, halt, prefs, spells, assigned_role,
                   connection_status, remote, probes, updater, mutexes, history>>

(***************************************************************************)
(* The ChampSelect arm: roster, loadout (SpellSelector), status.           *)
(***************************************************************************)
\* GET /lol-champ-select/v1/session, with the ids of the local player's
\* actions where the engine reads the action queues of the response
SessionGet(acts) ==
    [op |-> "session", port |-> lc_info, ids |-> {acts[k][1] : k \in DOMAIN acts}]

\* lines 1011-1037: GET /lol-champ-select/v1/session, the roster entry of the
\* local seat (.next().unwrap()), and the role it publishes
EngineFetchSession ==
    /\ pc = "phase"
    /\ cyc.phase = Some("ChampSelect")
    /\ Sent(SessionGet(<<>>))
    /\ \E ok \in Outcomes :
          IF ok
          THEN \E entry \in {None} \cup {Some(<<ids[1], ids[2], role>>) :
                                            ids \in RosterSpells, role \in Roles} :
                  IF IsSome(entry)
                  THEN /\ cyc' = [cyc EXCEPT !.extracted_team_data = Unwrap(entry)]
                       /\ assigned_role' = Some(Unwrap(entry)[3])
                       /\ pc' = "spell1"
                       /\ UNCHANGED <<lc_info, locked_champ, halt>>
                  ELSE Panic("roster") /\ UNCHANGED assigned_role
          ELSE Panic("session") /\ UNCHANGED assigned_role
    /\ UNCHANGED <<prefs, spells, gameflow_status, connection_status, remote, probes, updater, mutexes,
                   sessBan, sessPick, rcAccept, scen, cleared>>

\* lines 1038-1039
EngineReadSpell1 ==
    /\ pc = "spell1"
    /\ IF cyc.spell_selection
       THEN cyc' = [cyc EXCEPT !.spell1_clone = selected_image1] /\ pc' = "spell2"
       ELSE cyc' = cyc /\ pc' = "status"
    /\ UNCHANGED <<lc_info, locked_champ, halt, shared, remote, probes, updater, mutexes, history>>

\* line 1040
EngineReadSpell2 ==
    /\ pc = "spell2"
    /\ cyc' = [cyc EXCEPT !.spell2_clone = selected_image2]
    /\ pc' = "resolve"
    /\ UNCHANGED <<lc_info, locked_champ, halt, shared, remote, probes, updater, mutexes, history>>

\* lines 1043-1046: the override applies
NeedsOverride(role, s1, s2) ==
    ContainsJungle(role) /\ s1 # "Smite" /\ s2 # "Smite"

\* JungleOverride whose first branch does not write Smite to slot 2
JungleOverrideFlashOnly(id1, id2) ==
    IF id1 = FlashKey THEN <<Some("Flash"), None>>
    ELSE IF id1 = GhostKey THEN <<Some("Ghost"), Some("Smite")>>
    ELSE IF id2 = FlashKey THEN <<Some("Smite"), Some("Flash")>>
    ELSE IF id2 = GhostKey THEN <<Some("Smite"), Some("Ghost")>>
    ELSE <<Some("Smite"), None>>

\* lines 1047-1072: what the override stores in slot 1 and in slot 2 (None: the
\* slot is not written), decided by the roster entry's (spell1Id, spell2Id)
JungleOverride(id1, id2) ==
    IF id1 = FlashKey THEN <<Some("Flash"), Some("Smite")>>
    ELSE IF id1 = GhostKey THEN <<Some("Ghost"), Some("Smite")>>
    ELSE IF id2 = FlashKey THEN <<Some("Smite"), Some("Flash")>>
    ELSE IF id2 = GhostKey THEN <<Some("Smite"), Some("Ghost")>>
    ELSE <<Some("Smite"), None>>

\* LoadoutBody with the two slots exchanged
LoadoutBodySwapped(s1, s2) ==
    [op |-> "loadout", port |-> lc_info, spell1Id |-> SpellKey(s2), spell2Id |-> SpellKey(s1)]

\* lines 1084-1087
LoadoutBody(s1, s2) ==
    [op |-> "loadout", port |-> lc_info, spell1Id |-> SpellKey(s1), spell2Id |-> SpellKey(s2)]

\* EngineSpellResolve without spell2_clone.is_some(): a slot 2 that is not
\* named goes into the body as id 0
EngineSpellResolveHalf ==
    /\ pc = "resolve"
    /\ IF IsSome(cyc.spell1_clone)
       THEN /\ Sent([op |-> "loadout", port |-> lc_info,
                     spell1Id |-> SpellKey(Unwrap(cyc.spell1_clone)),
                     spell2Id |-> IF IsSome(cyc.spell2_clone)
                                  THEN SpellKey(Unwrap(cyc.spell2_clone)) ELSE 0])
            /\ pc' = "status"
            /\ UNCHANGED <<lc_info, locked_champ, cyc, halt>>
       ELSE /\ pc' = "status"
            /\ UNCHANGED <<reqs, lc_info, locked_champ, cyc, halt>>
    /\ UNCHANGED <<prefs, spells, gameflow_status, assigned_role,
                   connection_status, remote, probes, updater, mutexes, sessBan, sessPick, rcAccept, scen, cleared>>

\* lines 1042-1098: with both slots named, either the first write of the
\* override, or PATCH /lol-champ-select/v1/session/my-selection
EngineSpellResolve ==
    /\ pc = "resolve"
    /\ IF IsSome(cyc.spell1_clone) /\ IsSome(cyc.spell2_clone)
       THEN IF NeedsOverride(cyc.extracted_team_data[3], Unwrap(cyc.spell1_clone),
                             Unwrap(cyc.spell2_clone))
            THEN /\ selected_image1' =
                       JungleOverride(cyc.extracted_team_data[1], cyc.extracted_team_data[2])[1]
                 /\ pc' = "override2"
                 /\ UNCHANGED <<reqs, lc_info, locked_champ, cyc, halt>>
            ELSE /\ Sent(LoadoutBody(Unwrap(cyc.spell1_clone), Unwrap(cyc.spell2_clone)))
                 /\ UNCHANGED selected_image1
                 /\ \E ok \in Outcomes :
                       IF ok
                       THEN pc' = "status" /\ UNCHANGED <<lc_info, locked_champ, cyc, halt>>
                       ELSE Panic("loadout")
       ELSE /\ pc' = "status"
            /\ UNCHANGED <<selected_image1, reqs, lc_info, locked_champ, cyc, halt>>
    /\ UNCHANGED <<prefs, selected_image2, gameflow_status, assigned_role,
                   connection_status, remote, probes, updater, mutexes, sessBan, sessPick, rcAccept, scen, cleared>>

\* the second write of the override, if the branch has one, and its continue
EngineOverride2 ==
    /\ pc = "override2"
    /\ LET w == JungleOverride(cyc.extracted_team_data[1], cyc.extracted_team_data[2])[2]
       IN  selected_image2' = IF IsSome(w) THEN w ELSE selected_image2
    /\ pc' = "top"
    /\ UNCHANGED <<lc_info, locked_champ, cyc, halt, prefs, selected_image1,
                   gameflow_status, assigned_role, connection_status, remote, probes, updater, mutexes, history>>

\* lines 1101-1111
EngineStatus ==
    /\ pc = "status"
    /\ IF ~cyc.pick_ban_selection
       THEN gameflow_status' = "Champion Selection" /\ pc' = "top"
       ELSE /\ gameflow_status' = "Champion Selection with Auto-pick/ban ON"
            /\ pc' = IF Len(cyc.champion_picks) = 0 /\ IsNone(cyc.ban_picks)
                     THEN "top" ELSE "actions"
    /\ UNCHANGED <<lc_info, locked_champ, cyc, halt, prefs, spells, assigned_role,
                   connection_status, remote, probes, updater, mutexes, history>>

(***************************************************************************)
(* The ChampSelect arm: the action queues, the ban and the pick commitment *)
(* (ChampSelectCoordinator).  An action is (id, isInProgress, type,        *)
(* completed), as extracted_action_data holds it.                          *)
(***************************************************************************)
\* lines 1113-1159: GET /lol-champ-select/v1/session again; the first two
\* actions of the local seat, the sentinel where there is none.  The locals of
\* the loadout part are not read from here on and are dropped.
EngineFetchActions ==
    /\ pc = "actions"
    /\ \E ok \in Outcomes :
          IF ok
          THEN \E acts \in ActionLists(draft), planning \in BOOLEAN :
                  /\ Sent(SessionGet(acts))
                  /\ cyc' = [cyc EXCEPT
                                !.extracted_team_data = NoCycle.extracted_team_data,
                                !.spell1_clone = None,
                                !.spell2_clone = None,
                                !.ban = IF Len(acts) >= 1 THEN acts[1] ELSE Sentinel,
                                !.pick = IF Len(acts) >= 2 THEN acts[2] ELSE Sentinel,
                                !.planning = planning]
                  /\ pc' = "ban"
                  /\ UNCHANGED <<lc_info, locked_champ, halt>>
          ELSE Sent(SessionGet(<<>>)) /\ Panic("session")
    /\ UNCHANGED <<shared, remote, probes, updater, mutexes, sessBan, sessPick, rcAccept, scen, cleared>>

\* IsSkip that takes no entry for a placeholder
IsSkipNever(entry) == FALSE

\* .1.is_empty(): the entry is the skip placeholder
IsSkip(entry) == entry[2] = ""

\* GET /lol-champ-select/v1/grid-champions/{championId}, with the
\* selectionStatus.pickedByOtherOrBanned it answered
GridGet(champion, taken) ==
    [op |-> "grid", port |-> lc_info, championId |-> champion[1],
     pickedByOtherOrBanned |-> taken]
\* PATCH /lol-champ-select/v1/session/actions/{id} with ban_body or pick_body
ActionPatch(action, champion, type) ==
    [op |-> "action", port |-> lc_info, id |-> action[1], championId |-> champion[1],
     completed |-> TRUE, type |-> type]

\* BanEligible without the tests of the action's flags
BanEligibleIdle(ban, banned, planning) ==
    ~banned /\ ~planning

\* BanEligible without the test of the timer phase
BanEligibleInPlanning(ban, banned, planning) ==
    ban[2] /\ ~ban[4] /\ ~banned

\* lines 1184-1188
BanEligible(ban, banned, planning) ==
    ban[2] /\ ~ban[4] /\ ~banned /\ ~planning

\* the ban preference as the shared state holds it now
BanPreferenceLive == ban_picks

\* lines 963, 1161: ban_picks of the loop body is the clone taken at the top of
\* the cycle
BanPreference == cyc.ban_picks

\* lines 1161-1202: the grid status of the ban preference, then its PATCH
EngineBan ==
    /\ pc = "ban"
    /\ IF IsSome(BanPreference) /\ ~IsSkip(Unwrap(BanPreference))
       THEN \E ok \in Outcomes :
               IF ok
               THEN \E banned \in BOOLEAN :
                       IF BanEligible(cyc.ban, banned, cyc.planning)
                       THEN /\ reqs' = reqs \o <<GridGet(Unwrap(BanPreference), banned),
                                                 ActionPatch(cyc.ban, Unwrap(BanPreference), "ban")>>
                            /\ sessBan' = Bump(sessBan)
                            /\ \E sent \in Outcomes :
                                  IF sent
                                  THEN pc' = "pick0"
                                       /\ UNCHANGED <<lc_info, locked_champ, cyc, halt>>
                                  ELSE Panic("action")
                       ELSE /\ Sent(GridGet(Unwrap(BanPreference), banned))
                            /\ pc' = "pick0"
                            /\ UNCHANGED <<sessBan, lc_info, locked_champ, cyc, halt>>
               ELSE /\ Sent(GridGet(Unwrap(BanPreference), FALSE))
                    /\ Panic("grid")
                    /\ UNCHANGED sessBan
       ELSE /\ pc' = "pick0"
            /\ UNCHANGED <<reqs, sessBan, lc_info, locked_champ, cyc, halt>>
    /\ UNCHANGED <<shared, remote, probes, updater, mutexes, sessPick, rcAccept, scen, cleared>>

\* PickOver without || timer phase == "PLANNING"
PickOverIgnoresPlanning(ban, pick, planning) ==
    ~pick[2] /\ pick[4] /\ ~ban[2] /\ ban[4]

\* lines 1233-1237 (and 1299-1303): a && b && c && d || e
PickOver(ban, pick, planning) ==
    (~pick[2] /\ pick[4] /\ ~ban[2] /\ ban[4]) \/ planning

\* PickEligible without its last conjunct, !locked_champ
PickEligibleUnlocked(ban, pick, taken, locked) ==
    /\ ~taken
    /\ pick[2] /\ ~pick[4] /\ ~ban[2] /\ ban[4] /\ ~taken

\* PickEligible without !ban_is_in_progress && ban_completed
PickEligibleAnyBan(ban, pick, taken, locked) ==
    /\ ~taken
    /\ pick[2] /\ ~pick[4] /\ ~taken /\ ~locked

\* lines 1245-1252 (and 1311-1318)
PickEligible(ban, pick, taken, locked) ==
    /\ ~taken
    /\ pick[2] /\ ~pick[4] /\ ~ban[2] /\ ban[4] /\ ~taken /\ ~locked

\* lines 1211-1269 (and 1277-1335): one candidate with a name: its grid status,
\* the early continues, the PATCH; `after` is where the code goes on otherwise
PickCandidate(champion, after) ==
    \E ok \in Outcomes :
       IF ok
       THEN \E taken \in BOOLEAN :
               IF PickOver(cyc.ban, cyc.pick, cyc.planning) \/ ~cyc.pick[2]
               THEN /\ Sent(GridGet(champion, taken))
                    /\ pc' = "top"
                    /\ UNCHANGED <<sessPick, lc_info, locked_champ, cyc, halt>>
               ELSE IF PickEligible(cyc.ban, cyc.pick, taken, locked_champ)
               THEN /\ reqs' = reqs \o <<GridGet(champion, taken),
                                         ActionPatch(cyc.pick, champion, "pick")>>
                    /\ sessPick' = Bump(sessPick)
                    /\ \E sent \in Outcomes :
                          IF sent
                          THEN /\ locked_champ' = TRUE
                               /\ pc' = after
                               /\ UNCHANGED <<lc_info, cyc, halt>>
                          ELSE Panic("action")
               ELSE /\ Sent(GridGet(champion, taken))
                    /\ pc' = after
                    /\ UNCHANGED <<sessPick, lc_info, locked_champ, cyc, halt>>
       ELSE /\ Sent(GridGet(champion, FALSE))
            /\ Panic("grid")
            /\ UNCHANGED sessPick

\* lines 1204-1270: nothing queued; both entries skipped (get(1).unwrap() on a
\* queue of one entry panics); the first candidate
EnginePick0 ==
    /\ pc = "pick0"
    /\ IF Len(cyc.champion_picks) = 0
       THEN /\ pc' = "top"
            /\ UNCHANGED <<reqs, sessPick, lc_info, locked_champ, cyc, halt>>
       ELSE IF IsSkip(cyc.champion_picks[1])
       THEN /\ IF Len(cyc.champion_picks) < 2
               THEN Panic("champion_picks.get(1)")
               ELSE /\ pc' = IF IsSkip(cyc.champion_picks[2]) THEN "top" ELSE "pick1"
                    /\ UNCHANGED <<lc_info, locked_champ, cyc, halt>>
            /\ UNCHANGED <<reqs, sessPick>>
       ELSE PickCandidate(cyc.champion_picks[1], "pick1")
    /\ UNCHANGED <<shared, remote, probes, updater, mutexes, sessBan, rcAccept, scen, cleared>>

\* lines 1272-1336: a queue of one entry is done; the second candidate
EnginePick1 ==
    /\ pc = "pick1"
    /\ IF Len(cyc.champion_picks) = 1 \/ IsSkip(cyc.champion_picks[2])
       THEN /\ pc' = "top"
            /\ UNCHANGED <<reqs, sessPick, lc_info, locked_champ, cyc, halt>>
       ELSE PickCandidate(cyc.champion_picks[2], "top")
    /\ UNCHANGED <<shared, remote, probes, updater, mutexes, sessBan, rcAccept, scen, cleared>>

Engine ==
    \/ EngineBoot \/ EngineWaitSome \/ EngineWaitFound \/ EngineConnect
    \/ EngineCheckConnection \/ EngineReadPicks \/ EngineReadBan \/ EngineReadToggles
    \/ EngineFetchGameflow \/ EnginePhase \/ EngineReadyCheck \/ EngineMatchFound
    \/ EngineFetchSession \/ EngineReadSpell1 \/ EngineReadSpell2
    \/ EngineSpellResolve \/ EngineOverride2 \/ EngineStatus
    \/ EngineFetchActions \/ EngineBan \/ EnginePick0 \/ EnginePick1

(***************************************************************************)
(* The presentation layer: GUI::update.  A frame loads pick_ban_selection  *)
(* (line 182), takes the locks of the queue, the ban, the two statuses and *)
(* the two slots (lines 201-206) and holds them to its end, so the engine  *)
(* reads and writes those fields before the frame's body or after it: a    *)
(* frame that handles an input is one step.  A frame handles one input.    *)
(***************************************************************************)
\* what the operator types into the pick and ban fields
Texts == {"", "Ahri", " zed", "Nunu"}
\* .trim().replace(" ", "").replace("'", "").to_lowercase()
Cleaned(entry) ==
    CASE entry = "" -> ""
      [] entry = "Ahri" -> "ahri"
      [] entry = " zed" -> "zed"
      [] entry = "Nunu" -> "nunu"
\* champion.name.to_lowercase()
Lowercase(name) ==
    CASE name = "Ahri" -> "ahri"
      [] name = "Zed" -> "zed"
\* self.champions.iter().find(|champion| champion.name.to_lowercase() == cleaned)
MatchingChampion(cleaned) ==
    LET found == {c \in Champions : Lowercase(c[2]) = cleaned}
    IN  IF found = {} THEN None ELSE Some(CHOOSE c \in found : TRUE)

\* lines 676-680: two skipped picks and a skipped ban
AllSkipped(picks, ban) ==
    /\ Len(picks) = 2 /\ IsSkip(picks[1])
    /\ IsSome(ban) /\ IsSkip(Unwrap(ban))
    /\ IsSkip(picks[2])

\* lines 675-685, the end of every frame: `picks` and `ban` are what the frame
\* has made of the queue and the ban, `stored` what it has stored in the toggle
FrameEnd(picks, ban, stored) ==
    IF pick_ban_selection /\ AllSkipped(picks, ban)
    THEN champion_picks' = <<>> /\ ban_picks' = None /\ pick_ban_selection' = FALSE
    ELSE champion_picks' = picks /\ ban_picks' = ban /\ pick_ban_selection' = stored

\* one input of the operator is handled
Input ==
    /\ budget > 0
    /\ budget' = budget - 1
    /\ UNCHANGED <<client, draft, probes, updater, mutexes, engine, reqs, sessBan, sessPick, rcAccept, scen,
                   gameflow_status, assigned_role, connection_status>>

\* lines 299-304: Clear Picks/Bans
GuiClear ==
    /\ Input
    /\ FrameEnd(<<>>, None, pick_ban_selection)
    /\ cleared' = (cleared \/ (pc = "read_ban" /\ IsSome(ban_picks)))
    /\ UNCHANGED <<text, auto_accept, spell_selection, spells>>

\* PickEntered without the test champion_picks.contains(..)
PickEnteredUnchecked(pick_text) ==
    LET matching_champion == MatchingChampion(Cleaned(pick_text))
    IN  IF Cleaned(pick_text) = "" THEN <<Append(champion_picks, Skip), text>>
        ELSE IF IsNone(matching_champion)
        THEN <<champion_picks, "No champion found with the given name.">>
        ELSE <<Append(champion_picks, Unwrap(matching_champion)), text>>

\* lines 516-557: what Enter in the pick field makes of the queue and of the
\* inline message
PickEntered(pick_text) ==
    LET matching_champion == MatchingChampion(Cleaned(pick_text))
    IN  IF Cleaned(pick_text) = "" THEN <<Append(champion_picks, Skip), text>>
        ELSE IF IsNone(matching_champion)
        THEN <<champion_picks, "No champion found with the given name.">>
        ELSE IF \E i \in DOMAIN champion_picks :
                    champion_picks[i] = Unwrap(matching_champion)
        THEN <<champion_picks, "Champion has alread been selected.">>
        ELSE <<Append(champion_picks, Unwrap(matching_champion)), text>>

\* GuiEnterPick without champion_picks.len() < 2
GuiEnterPickUnbounded(pick_text) ==
    /\ Input
    /\ pick_ban_selection
    /\ FrameEnd(PickEntered(pick_text)[1], ban_picks, pick_ban_selection)
    /\ text' = PickEntered(pick_text)[2]
    /\ UNCHANGED <<auto_accept, spell_selection, spells, cleared>>

\* lines 463-564: Enter in the pick field
GuiEnterPick(pick_text) ==
    /\ Input
    /\ pick_ban_selection /\ Len(champion_picks) < 2
    /\ FrameEnd(PickEntered(pick_text)[1], ban_picks, pick_ban_selection)
    /\ text' = PickEntered(pick_text)[2]
    /\ UNCHANGED <<auto_accept, spell_selection, spells, cleared>>

\* lines 616-669: what Enter in the ban field makes of the ban and of the
\* inline message
BanEntered(ban_text) ==
    LET matching_champion == MatchingChampion(Cleaned(ban_text))
    IN  IF Cleaned(ban_text) = "" THEN <<Some(<<0, Cleaned(ban_text)>>), text>>
        ELSE IF IsNone(matching_champion)
        THEN <<ban_picks, "No champion found with the given name.">>
        ELSE IF \E i \in DOMAIN champion_picks :
                    champion_picks[i] = Unwrap(matching_champion)
        THEN <<ban_picks, "Champion has alread been selected.">>
        ELSE <<matching_champion, text>>

\* lines 566-673: Enter in the ban field
GuiEnterBan(ban_text) ==
    /\ Input
    /\ pick_ban_selection /\ IsNone(ban_picks)
    /\ FrameEnd(champion_picks, BanEntered(ban_text)[1], pick_ban_selection)
    /\ text' = BanEntered(ban_text)[2]
    /\ UNCHANGED <<auto_accept, spell_selection, spells, cleared>>

\* lines 448-458
GuiTogglePickBan ==
    /\ Input
    /\ FrameEnd(champion_picks, ban_picks, ~pick_ban_selection)
    /\ UNCHANGED <<text, auto_accept, spell_selection, spells, cleared>>

\* lines 408-417
GuiToggleAutoAccept ==
    /\ Input
    /\ auto_accept' = ~auto_accept
    /\ FrameEnd(champion_picks, ban_picks, pick_ban_selection)
    /\ UNCHANGED <<text, spell_selection, spells, cleared>>

\* lines 383-392
GuiToggleSpellSelection ==
    /\ Input
    /\ spell_selection' = ~spell_selection
    /\ FrameEnd(champion_picks, ban_picks, pick_ban_selection)
    /\ UNCHANGED <<text, auto_accept, spells, cleared>>

\* .clone().unwrap_or_default()
UnwrapOrDefault(o) == IF IsSome(o) THEN Unwrap(o) ELSE ""

\* lines 325-337: a key of the first menu
GuiSelectSpell1(key) ==
    /\ Input
    /\ IF key = UnwrapOrDefault(selected_image2)
       THEN selected_image2' = selected_image1 /\ selected_image1' = selected_image2
       ELSE selected_image1' = Some(key) /\ selected_image2' = selected_image2
    /\ FrameEnd(champion_picks, ban_picks, pick_ban_selection)
    /\ UNCHANGED <<text, auto_accept, spell_selection, cleared>>

\* lines 358-369: a key of the second menu
GuiSelectSpell2(key) ==
    /\ Input
    /\ IF key = UnwrapOrDefault(selected_image1)
       THEN selected_image2' = selected_image1 /\ selected_image1' = selected_image2
       ELSE selected_image2' = Some(key) /\ selected_image1' = selected_image1
    /\ FrameEnd(champion_picks, ban_picks, pick_ban_selection)
    /\ UNCHANGED <<text, auto_accept, spell_selection, cleared>>

\* line 229: update_status.contains("outdated")
Outdated(status) == status = "Program is outdated the latest version is newer"

\* lines 229-233: the Update button, shown while update_status says outdated
GuiClickUpdate ==
    /\ budget > 0
    /\ budget' = budget - 1
    /\ Outdated(update_status)
    /\ update' = TRUE
    /\ FrameEnd(champion_picks, ban_picks, pick_ban_selection)
    /\ UNCHANGED <<text, auto_accept, spell_selection, spells, gameflow_status, assigned_role,
                   connection_status, client, draft, probes, update_status, supervisor,
                   release, mutexes, engine, history>>

Gui ==
    \/ GuiClear
    \/ \E pick_text \in Texts : GuiEnterPick(pick_text)
    \/ \E ban_text \in Texts : GuiEnterBan(ban_text)
    \/ GuiTogglePickBan \/ GuiToggleAutoAccept \/ GuiToggleSpellSelection
    \/ \E key \in SpellNames : GuiSelectSpell1(key)
    \/ \E key \in SpellNames : GuiSelectSpell2(key)


(***************************************************************************)
(* The engine and the supervisor against a running client, for each        *)
(* selection the operator can have made in the presentation layer.         *)
(***************************************************************************)
\* champion_picks as the presentation layer can leave it
PickQueues ==
    LET Entries == Champions \cup {Skip}
    IN  {<<>>} \cup {<<a>> : a \in Entries}
               \cup {q \in Entries \X Entries : q[1] # q[2] \/ q[1] = Skip}
\* ban_picks as the presentation layer can leave it
BanPrefs == {None, Some(Skip)} \cup {Some(c) : c \in Champions}
\* (selected_image1, selected_image2) as the presentation layer can leave them
SlotPrefs ==
    {<<None, None>>, <<Some("Flash"), None>>, <<Some("Heal"), Some("Ignite")>>,
     <<Some("Flash"), Some("Heal")>>, <<Some("Heal"), Some("Smite")>>}

Setup(picks, ban, pbs, aa, ss, slots) ==
    [champion_picks |-> picks, ban_picks |-> ban, pick_ban_selection |-> pbs,
     auto_accept |-> aa, spell_selection |-> ss, slots |-> slots]
\* The three parts of a cycle read disjoint preferences: the ReadyCheck arm
\* auto_accept, the loadout part spell_selection and the slots, the commitment
\* part pick_ban_selection, the pick queue and the ban.  Each is varied in full
\* with the others at rest.
PickBanSetups ==
    {Setup(pb[1], pb[2], pbs, FALSE, FALSE, <<None, None>>) :
        pb \in {x \in PickQueues \X BanPrefs : ~AllSkipped(x[1], x[2])}, pbs \in BOOLEAN}
AcceptSetups ==
    {Setup(<<>>, None, FALSE, aa, FALSE, <<None, None>>) : aa \in BOOLEAN}
SlotSetups ==
    {Setup(<<>>, None, pbs, FALSE, TRUE, slots) : pbs \in BOOLEAN, slots \in SlotPrefs}
Setups == PickBanSetups \cup AcceptSetups \cup SlotSetups

InitSetup(s) ==
    /\ champion_picks = s.champion_picks
    /\ ban_picks = s.ban_picks
    /\ pick_ban_selection = s.pick_ban_selection
    /\ auto_accept = s.auto_accept
    /\ spell_selection = s.spell_selection
    /\ selected_image1 = s.slots[1]
    /\ selected_image2 = s.slots[2]
    /\ gameflow_status = ""
    /\ assigned_role = None
    /\ connection_status = None
    /\ text = ""

\* the state after construction
Init ==
    /\ InitShared
    /\ InitEngine
    /\ InitHistory
    /\ InitUpdater
    /\ InitMutexes
    /\ client = 1
    /\ draft = "draft"
    /\ budget = 0

\* the tasks start with a selection already made, in a game of any kind
InitSelection ==
    /\ \E s \in Setups : InitSetup(s)
    /\ InitEngine
    /\ InitHistory
    /\ InitUpdater
    /\ InitMutexes
    /\ client = 1
    /\ draft \in {"draft", "blind", "none"}
    /\ budget = 0

Next == Engine \/ SupervisorDiscover

Spec == InitSelection /\ [][Next]_vars

(***************************************************************************)
(* The three tasks together: the operator gives up to MaxInputs inputs     *)
(* while the engine and the supervisor run.                                *)
(***************************************************************************)
GuiSetups ==
    {Setup(<<>>, None, FALSE, FALSE, FALSE, <<None, None>>),
     Setup(<<Ahri>>, Some(Zed), TRUE, FALSE, FALSE, <<None, None>>),
     Setup(<<Skip>>, None, TRUE, FALSE, FALSE, <<None, None>>),
     Setup(<<>>, None, FALSE, TRUE, TRUE, <<Some("Heal"), Some("Ignite")>>)}

InitGui ==
    /\ \E s \in GuiSetups : InitSetup(s)
    /\ InitEngine
    /\ InitHistory
    /\ InitUpdater
    /\ InitMutexes
    /\ client = 1
    /\ draft = "draft"
    /\ budget = MaxInputs

NextGui == Engine \/ SupervisorDiscover \/ Gui

SpecGui == InitGui /\ [][NextGui]_vars

(***************************************************************************)
(* The engine and the supervisor against a client that is closed and       *)
(* opened again, on the same port or on another.                           *)
(***************************************************************************)
\* the ports the client's lockfile can name
Ports == {1, 2}

\* the client is closed
ClientStop ==
    /\ client # 0
    /\ client' = 0
    /\ UNCHANGED <<draft, budget, shared, probes, updater, mutexes, engine, history>>

\* the client is opened
ClientStart ==
    /\ client = 0
    /\ client' \in Ports
    /\ UNCHANGED <<draft, budget, shared, probes, updater, mutexes, engine, history>>

ConnSetups ==
    {Setup(<<Ahri>>, None, TRUE, TRUE, TRUE, <<Some("Flash"), Some("Heal")>>)}

InitConn ==
    /\ \E s \in ConnSetups : InitSetup(s)
    /\ InitEngine
    /\ InitHistory
    /\ InitUpdater
    /\ InitMutexes
    /\ client \in {0} \cup Ports
    /\ draft = "draft"
    /\ budget = 0

NextConn == Engine \/ SupervisorDiscover \/ ClientStop \/ ClientStart

SpecConn == InitConn /\ [][NextConn]_vars

(***************************************************************************)
(* The three tasks together, the operator working the pick/ban panel only: *)
(* up to MaxPanelInputs inputs (Clear, Enter in the pick field, Enter in   *)
(* the ban field) after two skips have been queued.                        *)
(***************************************************************************)
PanelSetups ==
    {Setup(<<Skip, Skip>>, None, TRUE, FALSE, TRUE, <<Some("Flash"), Some("Heal")>>)}

InitPanel ==
    /\ \E s \in PanelSetups : InitSetup(s)
    /\ InitEngine
    /\ InitHistory
    /\ InitUpdater
    /\ InitMutexes
    /\ client = 1
    /\ draft = "draft"
    /\ budget = MaxPanelInputs

GuiPanel ==
    \/ GuiClear
    \/ \E pick_text \in Texts : GuiEnterPick(pick_text)
    \/ \E ban_text \in Texts : GuiEnterBan(ban_text)

NextPanel == Engine \/ SupervisorDiscover \/ GuiPanel

SpecPanel == InitPanel /\ [][NextPanel]_vars

(***************************************************************************)
(* The presentation layer on its own, from the state after construction:   *)
(* up to MaxEdits inputs of the operator.  No step of the engine or of the *)
(* supervisor writes the pick queue, the ban or a toggle.                  *)
(***************************************************************************)
InitOperator ==
    /\ InitShared
    /\ InitEngine
    /\ InitHistory
    /\ InitUpdater
    /\ InitMutexes
    /\ client = 1
    /\ draft = "draft"
    /\ budget = MaxEdits

NextOperator == Gui

SpecOperator == InitOperator /\ [][NextOperator]_vars

(***************************************************************************)
(* The supervisor with the self-update: the server holds a newer release    *)
(* and the operator can press Update.  The supervisor's loop has no await   *)
(* that waits for another task, so it is scheduled again and again.         *)
(***************************************************************************)
UpdateSetups ==
    {Setup(<<Skip, Ahri>>, None, TRUE, FALSE, TRUE, <<Some("Flash"), Some("Heal")>>)}

InitUpdate ==
    /\ \E s \in UpdateSetups : InitSetup(s)
    /\ InitEngine
    /\ InitHistory
    /\ update_status = ""
    /\ update = FALSE
    /\ supervisor = ""
    /\ release = "newer"
    /\ InitMutexes
    /\ client = 1
    /\ draft = "blind"
    /\ budget = MaxInputs

Supervisor == SupervisorDiscover \/ SupervisorUpdate

NextUpdate == Engine \/ Supervisor \/ GuiClickUpdate

SpecUpdate == InitUpdate /\ [][NextUpdate]_vars /\ WF_vars(Supervisor)

(***************************************************************************)
(* The three tasks at their lock() calls only.                             *)
(***************************************************************************)
NextLocks == GuiLocks \/ EngineLocking \/ SupervisorLocking

SpecLocks == Init /\ [][NextLocks]_vars

(***************************************************************************)
(* Properties of the engine under Spec.                                    *)
(***************************************************************************)
ActionPatches(type) == {i \in DOMAIN reqs : reqs[i].op = "action" /\ reqs[i].type = type}
GridGets == {i \in DOMAIN reqs : reqs[i].op = "grid"}
LoadoutPatches == {i \in DOMAIN reqs : reqs[i].op = "loadout"}
InChampSelect == Len(reqs) > 0 /\ cyc.phase = Some("ChampSelect")

\* C1: in one run of cycles that observe ChampSelect the engine issues at most
\* one pick-commit PATCH.
PickCommittedAtMostOnce == sessPick <= 1

\* C1 witness: a cycle of a session whose pick was committed in an earlier
\* cycle ends having seen the pick in progress, not completed, the ban completed
\* and the first candidate available, and has sent no PATCH.
PickEligibleAgain ==
    /\ pc = "top" /\ InChampSelect
    /\ sessPick = 1 /\ locked_champ
    /\ PickEligible(cyc.ban, cyc.pick, FALSE, FALSE) /\ ~cyc.planning
    /\ \E i \in GridGets : ~reqs[i].pickedByOtherOrBanned
                           /\ reqs[i].championId = cyc.champion_picks[1][1]
    /\ ActionPatches("pick") = {}

\* C2: in one run of cycles that observe ChampSelect the engine issues at most
\* one ban-commit PATCH.
BanCommittedAtMostOnce == sessBan <= 1

\* C3: a pick-commit PATCH is sent only in a cycle whose action snapshot reports
\* the local ban action completed and not in progress.
PickOnlyAfterBanCompleted ==
    ActionPatches("pick") # {} => cyc.ban[3] = "ban" /\ cyc.ban[4] /\ ~cyc.ban[2]

\* C3 witness: a cycle has sent the pick PATCH and gone on.
PickPatchSent == pc # "panicked" /\ ActionPatches("pick") # {}

\* the cycle has copied the pick queue and the ban
SnapshotTaken == pc \notin {"boot", "wait_some", "wait_found", "connect", "top",
                            "read_picks", "read_ban", "panicked"}

\* C4: a snapshot whose read of the ban came after a Clear holds an empty pick
\* queue and no ban: never the queue from before the Clear with the ban from
\* after it.
ClearSeenWhole ==
    SnapshotTaken /\ cleared => cyc.champion_picks = <<>> /\ cyc.ban_picks = None

\* C5: no failed request or response of a cycle ends the engine loop.
CycleFailureContained ==
    halt \notin {"gameflow", "accept", "session", "roster", "grid", "action", "loadout"}

\* C6: a run of ChampSelect cycles in which no pick has been committed has the
\* pick-committed flag cleared.
FlagClearedInNewSession == InChampSelect /\ sessPick = 0 => ~locked_champ

\* C7: in one run of cycles that observe ReadyCheck the accept POST is issued at
\* most once.
AcceptedAtMostOnce == rcAccept <= 1

\* the override of the design: by the names of the two slots
OverrideByNames(s1, s2) ==
    IF s1 = "Flash" THEN <<"Flash", "Smite">>
    ELSE IF s1 = "Ghost" THEN <<"Ghost", "Smite">>
    ELSE IF s2 = "Flash" THEN <<"Smite", "Flash">>
    ELSE IF s2 = "Ghost" THEN <<"Smite", "Ghost">>
    ELSE <<"Smite", s2>>

\* C8: after a cycle that applied the jungle override the two slots hold the
\* pair the slot names decide, whatever the roster entry reports.
OverrideDecidedByNames ==
    /\ pc = "top" /\ InChampSelect
    /\ IsSome(cyc.spell1_clone) /\ IsSome(cyc.spell2_clone)
    /\ NeedsOverride(cyc.extracted_team_data[3], Unwrap(cyc.spell1_clone),
                     Unwrap(cyc.spell2_clone))
    => <<selected_image1, selected_image2>> =
          <<Some(OverrideByNames(Unwrap(cyc.spell1_clone), Unwrap(cyc.spell2_clone))[1]),
            Some(OverrideByNames(Unwrap(cyc.spell1_clone), Unwrap(cyc.spell2_clone))[2])>>

\* the loadout part of a cycle has just ended without the override, with auto
\* selection on and both slots named
ResolvedDirectly ==
    /\ pc = "status" /\ cyc.spell_selection
    /\ IsSome(cyc.spell1_clone) /\ IsSome(cyc.spell2_clone)
    /\ ~NeedsOverride(cyc.extracted_team_data[3], Unwrap(cyc.spell1_clone),
                      Unwrap(cyc.spell2_clone))

\* C9: with auto selection on, both slots named and no override due, the cycle
\* sends exactly one loadout PATCH, whose body is the catalog ids of slot 1 and
\* slot 2 in that order, and the slots are as they were read.
LoadoutSubmittedAsChosen ==
    ResolvedDirectly =>
        /\ Cardinality(LoadoutPatches) = 1
        /\ \A i \in LoadoutPatches :
              /\ reqs[i].spell1Id = SpellKey(Unwrap(selected_image1))
              /\ reqs[i].spell2Id = SpellKey(Unwrap(selected_image2))
        /\ selected_image1 = cyc.spell1_clone
        /\ selected_image2 = cyc.spell2_clone

\* C9 witness: Heal, Ignite, role top: the body is {7, 14}.
HealIgniteTopSubmitted ==
    /\ ResolvedDirectly
    /\ cyc.extracted_team_data[3] = "top"
    /\ selected_image1 = Some("Heal") /\ selected_image2 = Some("Ignite")
    /\ \E i \in LoadoutPatches : reqs[i].spell1Id = 7 /\ reqs[i].spell2Id = 14

\* the operator queued Ahri and a skip, no ban, auto pick/ban on, and the
\* phases observed so far are None, Matchmaking, ChampSelect in that order
AhriScenario ==
    /\ champion_picks = <<Ahri, Skip>>
    /\ ban_picks = None
    /\ pick_ban_selection
    /\ scen # "off"

\* C10: in that scenario no cycle sends a ban PATCH, every pick PATCH carries
\* championId 103, and every grid fetch is for 103 (none for the skip entry).
AhriOnly ==
    AhriScenario =>
        /\ ActionPatches("ban") = {}
        /\ \A i \in ActionPatches("pick") : reqs[i].championId = 103
        /\ \A i \in GridGets : reqs[i].championId = 103

\* C10 witness: the scenario has reached ChampSelect and a cycle has committed
\* Ahri and ended.
AhriCommitted ==
    /\ AhriScenario /\ scen = "cs"
    /\ pc = "top"
    /\ \E i \in ActionPatches("pick") : reqs[i].championId = 103

\* this step sends a loadout PATCH
LoadoutSent == Len(reqs') > Len(reqs) /\ reqs'[Len(reqs')].op = "loadout"

\* C11: a step sends a loadout PATCH only in a cycle that read both slots as
\* named, and the body carries the ids of both.
LoadoutOnlyWithBothSlots ==
    [][LoadoutSent =>
          /\ IsSome(cyc.spell1_clone) /\ IsSome(cyc.spell2_clone)
          /\ reqs'[Len(reqs')].spell1Id = SpellKey(Unwrap(cyc.spell1_clone))
          /\ reqs'[Len(reqs')].spell2Id = SpellKey(Unwrap(cyc.spell2_clone))]_vars

\* C11 witness: with auto selection on, a cycle read slot 1 named and slot 2
\* not, and its loadout part has ended without a loadout request.
OneSlotNoLoadout ==
    /\ pc = "status" /\ cyc.spell_selection
    /\ IsSome(cyc.spell1_clone) /\ IsNone(cyc.spell2_clone)
    /\ LoadoutPatches = {}

\* C12: the pick queue holds at most two entries.
PickQueueAtMostTwo == Len(champion_picks) <= 2

\* C12 witness: the queue is full, auto pick/ban is on, and the operator has
\* given at least four inputs.
PickQueueFull ==
    Len(champion_picks) = 2 /\ pick_ban_selection /\ budget + 4 <= MaxEdits

\* C13: no snapshot of the engine holds two skipped picks and a skipped ban
\* with auto pick/ban on.
AllSkippedNeverSeen ==
    SnapshotTaken /\ pc # "read_toggles" =>
        ~(AllSkipped(cyc.champion_picks, cyc.ban_picks) /\ cyc.pick_ban_selection)

\* the champion ids of the cycle's copy of the pick queue and of the ban
CopiedPickIds == {cyc.champion_picks[k][1] : k \in DOMAIN cyc.champion_picks}
CopiedBanIds == {cyc.ban_picks[k][1] : k \in DOMAIN cyc.ban_picks}

\* C14: every ban PATCH of the current cycle is for the ban the cycle copied,
\* every pick PATCH for an entry of the queue it copied, every grid fetch for
\* one of the two, whatever the operator has done since.
RequestsFromCopy ==
    /\ \A i \in ActionPatches("ban") : reqs[i].championId \in CopiedBanIds
    /\ \A i \in ActionPatches("pick") : reqs[i].championId \in CopiedPickIds
    /\ \A i \in GridGets : reqs[i].championId \in CopiedBanIds \cup CopiedPickIds

\* C14 witness: the operator changed the pick queue after the cycle copied it,
\* and the cycle has sent the pick PATCH of its copy and gone on.
PickSentAfterEdit ==
    /\ pc # "panicked" /\ budget < MaxInputs
    /\ champion_picks # cyc.champion_picks
    /\ ActionPatches("pick") # {}

\* the cycle has ended after observing a phase other than ChampSelect
PhaseCycleEnded ==
    pc = "top" /\ Len(reqs) > 0 /\ cyc.phase # Some("ChampSelect")

\* the phase table of the claim: (status text, seconds of wait)
PhaseContract(ph) ==
    CASE ph = Some("Matchmaking") -> <<"Looking for a match", 0>>
      [] ph = Some("Lobby") -> <<"In Lobby", 0>>
      [] ph = Some("ReadyCheck") -> <<"Match Found", 0>>
      [] ph = Some("InProgress") -> <<"Game in progress...", 20>>
      [] ph = Some("WaitingForStats") -> <<"Waiting for Stats", 2>>
      [] ph = Some("PreEndOfGame") -> <<"Game in progress...", 10>>
      [] ph = Some("EndOfGame") -> <<"Game Ending...", 5>>
      [] ph = Some("GameStart") -> <<"Unimplemented Phase: GameStart", 10>>
      [] ph = None -> <<"Idling...", 0>>

\* C15: a cycle that observed a phase other than ChampSelect ends with the
\* status text and the wait the phase table gives for that phase.
StatusAndWaitByPhase ==
    PhaseCycleEnded =>
        <<gameflow_status, cyc.slept>> = PhaseContract(cyc.phase)

\* C15 witness: a cycle observed a phase name the engine does not know and
\* ended with its name in the status after a wait of 10 s.
UnimplementedPhaseShown ==
    /\ PhaseCycleEnded /\ cyc.phase = Some("GameStart")
    /\ gameflow_status = "Unimplemented Phase: GameStart" /\ cyc.slept = 10

\* "Connected to LeagueClient on https://127.0.0.1:{port}" for a port, the
\* not-found text for a failure
Published(outcome) ==
    IF outcome # 0 THEN Some(<<"Connected", outcome>>) ELSE Some(<<"NotFound", 0>>)

\* C16: the published connection status is the outcome of the supervisor's
\* latest discovery call, and the supervisor can always run another iteration.
StatusIsLatestDiscovery ==
    /\ IsSome(probe) => connection_status = Published(Unwrap(probe))
    /\ ENABLED SupervisorDiscover

\* C16 witness: the client was found on a port, and a later discovery has
\* failed and published NotFound.
NotFoundAfterConnected ==
    /\ discovered # 0
    /\ probe = Some(0)
    /\ connection_status = Some(<<"NotFound", 0>>)

\* C17: no champion with a name is in the pick queue twice.
NoChampionQueuedTwice ==
    \A i, j \in DOMAIN champion_picks :
        i # j /\ ~IsSkip(champion_picks[i]) => champion_picks[i] # champion_picks[j]

\* C17 witness: after four inputs (auto pick/ban on, Ahri as ban, Ahri as
\* pick, Ahri as pick again: a ban entry is refused only while no ban is set
\* and the champion is queued) the last entry has been refused with the inline
\* message and the queue holds Ahri once.
DuplicateRefused ==
    /\ budget + 4 = MaxEdits
    /\ ban_picks = Some(Ahri)
    /\ champion_picks = <<Ahri>>
    /\ text = "Champion has alread been selected."

\* C18: every request the engine sends goes to the port of the latest
\* successful discovery.
RequestsTargetDiscovered ==
    [][Len(reqs') > Len(reqs) => reqs'[Len(reqs')].port = discovered]_vars

\* the cycle copied a queue of two champions, neither of them the ban, and a
\* grid fetch of the cycle reported the first one picked by another or banned
FirstCandidateTaken ==
    /\ Len(cyc.champion_picks) = 2
    /\ CopiedBanIds \cap CopiedPickIds = {}
    /\ \E i \in GridGets : /\ reqs[i].championId = cyc.champion_picks[1][1]
                            /\ reqs[i].pickedByOtherOrBanned

\* C19: a cycle that found the first queued champion picked by another or
\* banned sends no pick PATCH for the second one.
NoSubstitutionInCycle ==
    pc # "panicked" /\ FirstCandidateTaken =>
        \A j \in ActionPatches("pick") : reqs[j].championId # cyc.champion_picks[2][1]

\* C20: no cycle sends a grid fetch or a pick PATCH for a skip placeholder,
\* and no shape of the queue ends the engine loop.
SkipEntriesHarmless ==
    /\ \A i \in GridGets \cup ActionPatches("pick") : reqs[i].championId # Skip[1]
    /\ halt # "champion_picks.get(1)"

\* the requests of the current cycle that fetched the champ-select session
SessionGets == {i \in DOMAIN reqs : reqs[i].op = "session"}

\* C21: every ban PATCH of a cycle follows, in that cycle, the fetch of the
\* action queues and a grid fetch of the ban preference that did not report
\* picked-or-banned; the cycle's copy of the ban preference has a name, its
\* first local action is in progress and not completed, the timer phase is not
\* planning, and the body carries the preference's id and that action's id.
BanPatchGated ==
    \A i \in ActionPatches("ban") :
        /\ IsSome(cyc.ban_picks) /\ ~IsSkip(Unwrap(cyc.ban_picks))
        /\ cyc.ban[2] /\ ~cyc.ban[4] /\ ~cyc.planning
        /\ i > 1 /\ reqs[i - 1] = GridGet(Unwrap(cyc.ban_picks), FALSE)
        /\ \E j \in SessionGets : j > 2 /\ j < i
        /\ reqs[i].championId = Unwrap(cyc.ban_picks)[1]
        /\ reqs[i].id = cyc.ban[1] /\ reqs[i].completed

\* C21 witness: a cycle has sent the ban PATCH for Zed to action 1 and gone on.
ZedBanSent ==
    /\ pc = "pick0"
    /\ \E i \in ActionPatches("ban") : reqs[i].championId = 238 /\ reqs[i].id = 1

\* the grid fetches of the current cycle made for a candidate of the pick
\* queue: all but the first one of a cycle whose ban preference has a name
PickGridGets ==
    {j \in GridGets :
        ~(/\ IsSome(cyc.ban_picks) /\ ~IsSkip(Unwrap(cyc.ban_picks))
          /\ \A k \in GridGets : k >= j)}

\* C22: every pick PATCH of a cycle directly follows the grid fetch of the same
\* champion, which did not report picked-or-banned, in a cycle whose second
\* local action is in progress and not completed; a candidate reported
\* picked-or-banned is followed by no pick PATCH in its cycle, and from the
\* first grid fetch on the status stays the one published before it.
PickPatchOnlyIfAvailable ==
    /\ \A i \in ActionPatches("pick") :
          /\ i > 1 /\ reqs[i - 1].op = "grid"
          /\ reqs[i - 1].championId = reqs[i].championId
          /\ ~reqs[i - 1].pickedByOtherOrBanned
          /\ cyc.pick[2] /\ ~cyc.pick[4]
    /\ \A j \in PickGridGets, i \in ActionPatches("pick") :
          reqs[j].pickedByOtherOrBanned => i < j
    /\ GridGets # {} => gameflow_status = "Champion Selection with Auto-pick/ban ON"

\* C30: the supervisor can run an iteration, which ends in the discovery
\* call, again and again, however its update went.
SupervisorKeepsDiscovering == []<>(ENABLED Supervisor)

\* a cycle that observed ChampSelect has ended
ChampSelectCycleEnded == pc = "top" /\ InChampSelect

\* C23: a ChampSelect cycle whose copy of the toggle has auto pick/ban off
\* ends with status "Champion Selection", having fetched the session once (for
\* the roster, not for the action queues), no grid status, and sent no ban or
\* pick PATCH.
PickBanOffCycle ==
    ChampSelectCycleEnded /\ ~cyc.pick_ban_selection =>
        /\ gameflow_status = "Champion Selection"
        /\ Cardinality(SessionGets) = 1
        /\ GridGets = {}
        /\ ActionPatches("ban") \cup ActionPatches("pick") = {}

\* C24: every cycle that observed ChampSelect ends with the status
\* "Champion Selection" (auto pick/ban off in its copy) or "Champion Selection
\* with Auto-pick/ban ON" (on).
ChampSelectStatusPublished ==
    ChampSelectCycleEnded =>
        gameflow_status = IF cyc.pick_ban_selection
                          THEN "Champion Selection with Auto-pick/ban ON"
                          ELSE "Champion Selection"

\* a cycle that applied the jungle override has ended
OverrideCycleEnded ==
    /\ ChampSelectCycleEnded
    /\ IsSome(cyc.spell1_clone) /\ IsSome(cyc.spell2_clone)
    /\ NeedsOverride(cyc.extracted_team_data[3], Unwrap(cyc.spell1_clone),
                     Unwrap(cyc.spell2_clone))

\* C25: after a cycle that applied the jungle override both stored slots are
\* named and one of them is Smite, so the override does not apply to them
\* again; and a cycle with role jungle that reads a pair holding Smite sends
\* one loadout PATCH with the ids of that pair and leaves the slots as read.
OverrideStable ==
    /\ OverrideCycleEnded =>
          /\ IsSome(selected_image1) /\ IsSome(selected_image2)
          /\ "Smite" \in {Unwrap(selected_image1), Unwrap(selected_image2)}
          /\ ~NeedsOverride(cyc.extracted_team_data[3], Unwrap(selected_image1),
                            Unwrap(selected_image2))
    /\ ResolvedDirectly /\ ContainsJungle(cyc.extracted_team_data[3]) =>
          /\ Cardinality(LoadoutPatches) = 1
          /\ \A i \in LoadoutPatches :
                /\ reqs[i].spell1Id = SpellKey(Unwrap(cyc.spell1_clone))
                /\ reqs[i].spell2Id = SpellKey(Unwrap(cyc.spell2_clone))
          /\ <<selected_image1, selected_image2>> = <<cyc.spell1_clone, cyc.spell2_clone>>

\* C25 witness: the slots hold (Flash, Smite), which only an override stores
\* (no selection starts with that pair), and a later cycle with role jungle
\* has read them and sent the loadout {4, 11}.
AdjustedPairSubmitted ==
    /\ ResolvedDirectly /\ ContainsJungle(cyc.extracted_team_data[3])
    /\ cyc.spell1_clone = Some("Flash") /\ cyc.spell2_clone = Some("Smite")
    /\ \E i \in LoadoutPatches : reqs[i].spell1Id = 4 /\ reqs[i].spell2Id = 11

\* the accept POSTs of the current cycle
AcceptPosts == {i \in DOMAIN reqs : reqs[i].op = "accept"}

\* C26: an accept POST is sent only in a cycle that observed ReadyCheck and
\* whose copy of the auto-accept toggle is on; a ReadyCheck cycle that has
\* ended has sent one accept POST if its copy is on and none if it is off, and
\* its status is "Match Found".
AcceptOnlyWhenOn ==
    /\ AcceptPosts # {} => cyc.phase = Some("ReadyCheck") /\ cyc.auto_accept
    /\ PhaseCycleEnded /\ cyc.phase = Some("ReadyCheck") =>
          /\ Cardinality(AcceptPosts) = (IF cyc.auto_accept THEN 1 ELSE 0)
          /\ gameflow_status = "Match Found"

\* C26 witness: the operator switched auto-accept on after the cycle had
\* loaded it as off; the cycle observed ReadyCheck and ended with
\* "Match Found" and no accept POST.
NotAcceptedAfterToggle ==
    /\ PhaseCycleEnded /\ cyc.phase = Some("ReadyCheck")
    /\ ~cyc.auto_accept /\ auto_accept
    /\ AcceptPosts = {} /\ gameflow_status = "Match Found"

\* the phases whose cycle clears the published role
RoleClearingPhases ==
    {Some("Matchmaking"), Some("Lobby"), Some("EndOfGame"), Some("GameStart")}

\* C27: the step that handles Matchmaking, Lobby, EndOfGame or a phase the
\* engine does not know leaves the published role absent; the step that reads
\* the roster of a ChampSelect cycle publishes the local entry's role; every
\* other step, in a cycle of any phase, leaves the published role as it is.
RoleByPhase ==
    [][IF pc = "phase" /\ pc' = "top" /\ cyc.phase \in RoleClearingPhases
       THEN assigned_role' = None
       ELSE IF pc = "phase" /\ pc' = "spell1"
       THEN cyc.phase = Some("ChampSelect")
            /\ assigned_role' = Some(cyc'.extracted_team_data[3])
       ELSE assigned_role' = assigned_role]_vars

\* C27 witness: a cycle that observed InProgress has ended with the role of an
\* earlier ChampSelect cycle still published.
RoleKeptInProgress ==
    /\ PhaseCycleEnded /\ cyc.phase = Some("InProgress")
    /\ assigned_role = Some("jungle")

\* C28: the id of every ban or pick PATCH is one of the ids of the local
\* player's actions in a session response fetched earlier in the same cycle
\* (the first for a ban, the second for a pick, as the cycle holds them), and
\* never the id 0 of the sentinel.
ActionIdsFetchedInCycle ==
    \A i \in ActionPatches("ban") \cup ActionPatches("pick") :
        /\ reqs[i].id # Sentinel[1]
        /\ \E j \in SessionGets : j < i /\ reqs[i].id \in reqs[j].ids
        /\ reqs[i].id = IF reqs[i].type = "ban" THEN cyc.ban[1] ELSE cyc.pick[1]

\* C28 witness: in a session whose actions have the ids 11 and 12 a cycle has
\* sent the pick PATCH to action 12, after an earlier cycle of the same run of
\* ChampSelect cycles sent a ban PATCH.
FreshIdPatched ==
    /\ pc = "top" /\ sessBan >= 1 /\ ActionPatches("ban") = {}
    /\ \E i \in ActionPatches("pick") : reqs[i].id = 12

\* the cycle's copies say: auto pick/ban on, nothing queued, no ban preference
NothingQueued ==
    /\ cyc.pick_ban_selection
    /\ Len(cyc.champion_picks) = 0 /\ IsNone(cyc.ban_picks)

\* C29: a ChampSelect cycle with auto pick/ban on, an empty pick queue and no
\* ban preference never reaches the fetch of the action queues: it sends one
\* session fetch (for the roster), no grid fetch and no ban or pick PATCH, and
\* it ends with the status "Champion Selection with Auto-pick/ban ON".
NothingQueuedStops ==
    /\ InChampSelect /\ SnapshotTaken /\ pc # "read_toggles" /\ NothingQueued =>
          /\ pc \notin {"actions", "ban", "pick0", "pick1"}
          /\ Cardinality(SessionGets) <= 1
          /\ GridGets = {}
          /\ ActionPatches("ban") \cup ActionPatches("pick") = {}
    /\ ChampSelectCycleEnded /\ NothingQueued =>
          gameflow_status = "Champion Selection with Auto-pick/ban ON"

\* C31: every ban PATCH goes to an action whose kind is ban and every pick
\* PATCH to an action whose kind is pick.
PatchKindMatchesAction ==
    /\ \A i \in ActionPatches("ban") : reqs[i].id = cyc.ban[1] /\ cyc.ban[3] = "ban"
    /\ \A i \in ActionPatches("pick") : reqs[i].id = cyc.pick[1] /\ cyc.pick[3] = "pick"

\* C33: when both slots are named they name two different spells.
SlotsNameDifferentSpells ==
    IsSome(selected_image1) /\ IsSome(selected_image2) =>
        Unwrap(selected_image1) # Unwrap(selected_image2)

\* C34: no loadout PATCH carries the same id in both slots: the pair it was
\* made from was the pair of the two slots at one instant.
LoadoutFromOneInstant ==
    \A i \in LoadoutPatches : reqs[i].spell1Id # reqs[i].spell2Id

\* C35: a step that is not an input of the operator (a step of the engine or
\* of the supervisor) leaves the pick queue, the ban preference and the three
\* toggles as they are.
EngineLeavesPreferences ==
    [][budget' = budget =>
          UNCHANGED <<champion_picks, ban_picks, pick_ban_selection, auto_accept,
                      spell_selection>>]_vars

\* C35 witness: with no operator input at all, a cycle has sent the pick PATCH
\* for Ahri after the ban PATCH for Zed went out in an earlier cycle, and Ahri
\* and Zed are still the queue and the ban preference.
CommittedStayQueued ==
    /\ budget = MaxInputs /\ pc = "top"
    /\ sessBan >= 1
    /\ \E i \in ActionPatches("pick") : reqs[i].championId = 103
    /\ champion_picks = <<Ahri>> /\ ban_picks = Some(Zed) /\ pick_ban_selection

\* C36: the requests of one cycle hold at most one commit PATCH, ban and pick
\* together.
OneCommitPerCycle ==
    Cardinality(ActionPatches("ban") \cup ActionPatches("pick")) <= 1

\* C36 witness: a cycle with Ahri and Zed queued committed Ahri, went on to
\* fetch the grid status of Zed, which was available, and ended with the one
\* PATCH.
SecondNotCommitted ==
    /\ pc = "top" /\ cyc.champion_picks = <<Ahri, Zed>>
    /\ \E i \in ActionPatches("pick") : reqs[i].championId = 103
    /\ \E j \in GridGets : reqs[j].championId = 238 /\ ~reqs[j].pickedByOtherOrBanned
    /\ Cardinality(ActionPatches("pick")) = 1

\* C37: the ban preference, when it names a champion, names none of the
\* champions in the pick queue.
BanNotInPickQueue ==
    IsSome(ban_picks) /\ ~IsSkip(Unwrap(ban_picks)) =>
        \A i \in DOMAIN champion_picks : champion_picks[i] # Unwrap(ban_picks)

\* C38: a cycle whose session response reports the timer phase PLANNING sends
\* no pick PATCH.
NoPickWhilePlanning ==
    cyc.planning => ActionPatches("pick") = {}

\* C38 witness: in a cycle with timer phase PLANNING, the ban completed, the
\* pick in progress and nothing committed, Ahri's grid status was fetched and
\* reported available, and the cycle ended without a PATCH.
PlanningHeldPick ==
    /\ pc = "top" /\ cyc.planning
    /\ PickEligible(cyc.ban, cyc.pick, FALSE, locked_champ)
    /\ \E j \in GridGets : reqs[j].championId = 103 /\ ~reqs[j].pickedByOtherOrBanned
    /\ cyc.champion_picks = <<Ahri>> /\ IsNone(cyc.ban_picks)
    /\ ActionPatches("pick") = {}

\* the positions of the engine before it has built its first rest_client
BeforeConnection == {"boot", "wait_some", "wait_found", "connect"}

\* C39: no step taken before the engine has its first connection sends a
\* request; the engine leaves its start-up wait only while the published status
\* is a connected one; and at the top of the loop, while the published status is
\* not-found and discovery fails, a step sends no request, publishes no status
\* and no role, and leaves the engine at the top of the loop.
NoRequestWithoutConnection ==
    [][/\ pc \in BeforeConnection => reqs' = <<>>
       /\ pc \in {"boot", "wait_some"} => pc' \in {"boot", "wait_some", "wait_found", "panicked"}
       /\ pc = "wait_found" /\ pc' # pc =>
             /\ pc' = "connect"
             /\ IsSome(connection_status) /\ Unwrap(connection_status)[1] = "Connected"
       /\ pc = "top" /\ NotFound(connection_status) /\ IsNone(Discovery) =>
             /\ pc' = "top" /\ reqs' \in {reqs, <<>>}
             /\ UNCHANGED <<gameflow_status, assigned_role>>]_vars

\* C39 witness: after cycles that published a status, the client is closed,
\* the published status is not-found, and the engine has run the top of its
\* loop and is at the top again with nothing sent.
LoopedWithoutClient ==
    /\ pc = "top" /\ cyc = NoCycle /\ reqs = <<>>
    /\ gameflow_status # "" /\ lc_info # 0
    /\ client = 0 /\ NotFound(connection_status)

\* a set of tasks each of which is blocked on a mutex held by one of them
WaitsFor(t, u) == want[t] # "" /\ owner[want[t]] = u
Deadlocked(S) == S # {} /\ \A t \in S : \E u \in S : WaitsFor(t, u)

\* C32: no set of tasks is blocked on mutexes held within the set; the engine
\* and the supervisor hold at most one mutex and hold none while they are
\* blocked in lock(); the long-lived guards the GUI holds are the first ones of
\* its fixed order, and between frames it holds nothing.
LocksNeverDeadlock ==
    /\ \A S \in SUBSET Tasks : ~Deadlocked(S)
    /\ \A t \in {"engine", "supervisor"} :
          Cardinality(Held(t)) <= 1 /\ (want[t] # "" => Held(t) = {})
    /\ \E n \in 0..FrameGuards :
          {m \in Held("gui") : \E k \in 1..FrameGuards : FrameLocks[k] = m}
              = {FrameLocks[k] : k \in 1..n}
    /\ frame = 0 => Held("gui") = {}

\* C32 witness: the GUI holds its six frame guards and is blocked on
\* update_status, which the engine holds; the supervisor is blocked on
\* connection_status, which the GUI holds.
TasksBlockedOnFrame ==
    /\ \A k \in 1..FrameGuards : owner[FrameLocks[k]] = "gui"
    /\ want["gui"] = "update_status" /\ owner["update_status"] = "engine"
    /\ want["supervisor"] = "connection_status"

====
